---- MODULE Spec2Model ----
(***************************************************************************)
(* A model of TTS-prototype/main.py: the ElevenLabs text-to-speech CLI and *)
(* the HTTP gateway (TTSServer / TTSRequestHandler) in front of it.        *)
(*                                                                         *)
(* Strings are sequences of one-character strings, so that strip(),        *)
(* lower() and the substring test are computed, not assumed.  A Python     *)
(* value is a record [t, s]: t is its type, s the characters of str() of   *)
(* it (for a dict: the characters standing for its keys).                  *)
(***************************************************************************)
EXTENDS Integers, Sequences, FiniteSets, TLC

VARIABLES
    server,   \* the gateway process: its phase and, once exited, the exit message
              \* (in SpecStartup also the environment it was started in)
    config,   \* ServerConfig, built once by serve()
    conn,     \* one record per connection thread of the ThreadingHTTPServer
    cli       \* the voice arguments and the run of resolve_voice_id

vars == <<server, config, conn, cli>>

-----------------------------------------------------------------------------
(* Bounds *)

\* Longest voice list the provider returns in the model.
MaxCatalog == 2

-----------------------------------------------------------------------------
(* Python values *)

None == [t |-> "null", s |-> <<"N", "o", "n", "e">>]
Str(chars) == [t |-> "str", s |-> chars]
Num(digits) == [t |-> "num", s |-> digits]
Dict(keys) == [t |-> "dict", s |-> keys]

\* Python truthiness, as used by `or`, `if x:` and `if not x:`.
Truthy(v) ==
    CASE v.t = "null" -> FALSE
      [] v.t = "str" -> v.s # <<>>
      [] v.t = "num" -> v.s # <<"0">>
      [] v.t = "dict" -> v.s # <<>>

\* Python `a or b`.
Or(a, b) == IF Truthy(a) THEN a ELSE b

\* str(v): a str is itself, a number its digits, a dict its braces and keys.
PyStr(v) == IF v.t = "dict" THEN <<"{">> \o v.s \o <<"}">> ELSE v.s

IsDict(v) == v.t = "dict"

IsSpace(c) == c \in {" ", "\t", "\n"}

RECURSIVE LStrip(_)
LStrip(s) == IF s # <<>> /\ IsSpace(Head(s)) THEN LStrip(Tail(s)) ELSE s

RECURSIVE RStrip(_)
RStrip(s) ==
    IF s # <<>> /\ IsSpace(s[Len(s)]) THEN RStrip(SubSeq(s, 1, Len(s) - 1)) ELSE s

\* str.strip()
Strip(s) == RStrip(LStrip(s))

LowerChar(c) ==
    CASE c = "A" -> "a"
      [] c = "B" -> "b"
      [] c = "D" -> "d"
      [] c = "L" -> "l"
      [] c = "M" -> "m"
      [] c = "N" -> "n"
      [] c = "Z" -> "z"
      [] OTHER -> c

\* str.lower()
Lower(s) == IF s = <<>> THEN <<>> ELSE [i \in 1..Len(s) |-> LowerChar(s[i])]

\* Python `q in s` on strings.
Contains(q, s) ==
    \E i \in 0..(Len(s) - Len(q)) : SubSeq(s, i + 1, i + Len(q)) = q

-----------------------------------------------------------------------------
(* The provider's voice list, and resolve_voice_id *)

Voice(name, id, hasId, category) ==
    [name |-> name, voice_id |-> id, has_id |-> hasId, category |-> category]

Adam == Voice(Str(<<"A", "d", "a", "m">>), Str(<<"v", "a">>), TRUE, Str(<<"p">>))
Nadia == Voice(Str(<<"N", "a", "d", "i", "a">>), Str(<<"v", "n">>), TRUE, None)
Bob == Voice(Str(<<"B", "o", "b">>), Str(<<"v", "b">>), TRUE, None)
\* A voice whose voice_id is the empty string, and one with no voice_id key.
Blank == Voice(None, Str(<<>>), TRUE, None)
Zed == Voice(Str(<<"Z", "e", "d">>), None, FALSE, None)

Voices == {Adam, Nadia, Bob, Blank, Zed}

Catalogs == UNION {[1..n -> Voices] : n \in 0..MaxCatalog}

\* What GET /voices can answer: a failure, or a list of voices.
VoicesResponses ==
    {[ok |-> FALSE, voices |-> <<>>]} \cup {[ok |-> TRUE, voices |-> c] : c \in Catalogs}

\* voice.get("voice_id")
GetVoiceId(voice) == IF voice.has_id THEN voice.voice_id ELSE None

\* The outcome of a call: a returned value, SystemExit, or another exception.
Return(v, printed) == [kind |-> "return", value |-> v, msg |-> <<>>, printed |-> printed]
Exit(msg, printed) == [kind |-> "exit", value |-> None, msg |-> msg, printed |-> printed]
Raise(exc) == [kind |-> "raise", value |-> None, msg |-> <<exc>>, printed |-> <<>>]

\* print_voices: one line per voice, in order.
PrintVoices(voices) ==
    [i \in DOMAIN voices |->
        [label |-> PyStr(Or(voices[i].name, Str(<<>>))),
         category |-> PyStr(Or(voices[i].category, Str(<<>>))),
         voice_id |-> PyStr(Or(GetVoiceId(voices[i]), Str(<<>>)))]]

\* A slip: the voice's name is compared as written, not lower-cased.
NameMatches_CaseSensitive(voice, query) ==
    Contains(query, PyStr(Or(voice.name, Str(<<>>))))

NameMatches(voice, query) == Contains(query, Lower(PyStr(Or(voice.name, Str(<<>>)))))

\* pick_voice_by_name: the matches, and whether it returns the one voice or exits.
PickVoiceByName(voices, name_query) ==
    LET query == Lower(Strip(name_query))
        matches == SelectSeq(voices, LAMBDA v : NameMatches(v, query))
    IN  IF matches = <<>>
        THEN [kind |-> "exit", msg |-> <<"No voice matched name query">>,
              printed |-> <<>>, matches |-> matches]
        ELSE IF Len(matches) > 1
        THEN [kind |-> "exit", msg |-> <<"1">>,
              printed |-> PrintVoices(matches), matches |-> matches]
        ELSE [kind |-> "return", msg |-> <<>>, printed |-> <<>>, matches |-> matches]

\* list_voices: SystemExit when the response is not ok.
ListVoicesFails(resp) == ~resp.ok

\* A slip: the environment default is tried before the explicit id.
ResolveWithoutCatalog_EnvFirst(voice_id, env_voice_id) ==
    IF Truthy(env_voice_id) THEN env_voice_id
    ELSE IF Truthy(voice_id) THEN voice_id
    ELSE None

\* resolve_voice_id up to the catalog fetch: the id it returns without one.
ResolveWithoutCatalog(voice_id, env_voice_id) ==
    IF Truthy(voice_id) THEN voice_id
    ELSE IF Truthy(env_voice_id) THEN env_voice_id
    ELSE None

ResolveNeedsCatalog(voice_id, env_voice_id) ==
    ~Truthy(voice_id) /\ ~Truthy(env_voice_id)

\* resolve_voice_id from `voices = list_voices(api_key)` on.
ResolveWithCatalog(voice_name, resp) ==
    IF ListVoicesFails(resp) THEN Exit(<<"List voices failed">>, <<>>)
    ELSE IF Truthy(voice_name)
    THEN LET pick == PickVoiceByName(resp.voices, voice_name.s)
         IN  IF pick.kind = "exit" THEN Exit(pick.msg, pick.printed)
             ELSE IF ~pick.matches[1].has_id THEN Raise("KeyError")
             ELSE Return(pick.matches[1].voice_id, <<>>)
    ELSE IF resp.voices = <<>>
    THEN Exit(<<"No voices returned. Check your ElevenLabs account.">>, <<>>)
    ELSE IF ~Truthy(GetVoiceId(resp.voices[1]))
    THEN Exit(<<"First voice is missing a voice_id.">>, <<>>)
    ELSE Return(GetVoiceId(resp.voices[1]),
                <<[label |-> PyStr(Or(resp.voices[1].name,
                                      Str(<<"u", "n", "k", "n", "o", "w", "n">>))),
                   category |-> <<>>,
                   voice_id |-> PyStr(GetVoiceId(resp.voices[1]))]>>)

\* The arguments and environment resolve_voice_id reads.
ArgVoiceIds == {None, Str(<<>>), Str(<<"v", "x">>)}
EnvVoiceIds == {None, Str(<<>>), Str(<<"v", "e">>)}
ArgVoiceNames ==
    {None, Str(<<>>), Str(<<" ">>), Str(<<"a", "d", "a">>),
     Str(<<"a", "d">>), Str(<<" ", "A", "D", "A", "M">>), Str(<<"z", "z">>),
     Str(<<"z", "e">>)}

NoOutcome == [kind |-> "none", value |-> None, msg |-> <<>>, printed |-> <<>>]

\* The arguments and environment of resolve_voice_id, and its run: the catalog
\* fetches, the catalog that came, the outcome.
CliIdle ==
    [pc |-> "off", voice_id |-> None, env_voice_id |-> None, voice_name |-> None,
     fetches |-> 0, catalog |-> [ok |-> FALSE, voices |-> <<>>],
     outcome |-> NoOutcome]

\* resolve_voice_id, lines 101-108: return an id, or go and fetch the catalog.
CliResolveVoiceId ==
    /\ cli.pc = "resolve"
    /\ cli' = IF ResolveNeedsCatalog(cli.voice_id, cli.env_voice_id)
              THEN [cli EXCEPT !.pc = "list_voices", !.fetches = @ + 1]
              ELSE [cli EXCEPT !.pc = "done",
                        !.outcome = Return(ResolveWithoutCatalog(cli.voice_id,
                                                                cli.env_voice_id), <<>>)]
    /\ UNCHANGED <<server, config, conn>>

\* list_voices answers, and resolve_voice_id runs to its end.
CliListVoicesReturns ==
    /\ cli.pc = "list_voices"
    /\ \E resp \in VoicesResponses :
          cli' = [cli EXCEPT !.pc = "done", !.catalog = resp,
                      !.outcome = ResolveWithCatalog(cli.voice_name, resp)]
    /\ UNCHANGED <<server, config, conn>>

-----------------------------------------------------------------------------
(* Startup: main, get_api_key, load_voice_map, serve *)

\* A key/value pair of the ELEVENLABS_VOICE_MAP JSON object, in document order.
Item(key, value) == [key |-> key, value |-> value]

RawUnset == [kind |-> "unset", items |-> <<>>]
RawNotJson == [kind |-> "notjson", items |-> <<>>]
RawList == [kind |-> "list", items |-> <<>>]
\* {" Bob ": " vb ", "AL": "va", "ghost": null, "mute": ""}
RawTeam ==
    [kind |-> "dict",
     items |-> <<Item(<<" ", "B", "o", "b", " ">>, Str(<<" ", "v", "b", " ">>)),
                 Item(<<"A", "L">>, Str(<<"v", "a">>)),
                 Item(<<"g">>, None),
                 Item(<<"m">>, Str(<<>>))>>]
\* {" ": "vs", "bob": " "}
RawBlank ==
    [kind |-> "dict",
     items |-> <<Item(<<" ">>, Str(<<"v", "s">>)),
                 Item(<<"b", "o", "b">>, Str(<<" ">>))>>]

RawVoiceMaps == {RawUnset, RawNotJson, RawList, RawTeam, RawBlank}

EmptyMap == [k \in {} |-> <<>>]

\* voice_map[key] = value
Put(m, key, value) == [k \in DOMAIN m \cup {key} |-> IF k = key THEN value ELSE m[k]]

\* dict.get(key, default)
Get(m, key, default) == IF key \in DOMAIN m THEN m[key] ELSE default

\* The loop of load_voice_map over payload.items().
RECURSIVE BuildVoiceMap(_, _)
BuildVoiceMap(items, acc) ==
    IF items = <<>> THEN acc
    ELSE BuildVoiceMap(Tail(items),
            IF Head(items).value.t = "null" THEN acc
            ELSE Put(acc, Lower(Strip(Head(items).key)),
                     Strip(PyStr(Head(items).value))))

\* A slip: the isinstance check is missing, a JSON list is taken as no map.
LoadVoiceMapExit_AcceptsList(raw) ==
    CASE raw.kind = "notjson" -> <<"Invalid ELEVENLABS_VOICE_MAP JSON">>
      [] OTHER -> <<>>

\* load_voice_map: the map, or the SystemExit message.
LoadVoiceMapExit(raw) ==
    CASE raw.kind = "notjson" -> <<"Invalid ELEVENLABS_VOICE_MAP JSON">>
      [] raw.kind = "list" -> <<"ELEVENLABS_VOICE_MAP must be a JSON object">>
      [] OTHER -> <<>>

LoadVoiceMap(raw) ==
    IF raw.kind = "dict" THEN BuildVoiceMap(raw.items, EmptyMap) ELSE EmptyMap

\* The remaining command-line options serve() copies into the configuration.
Options(output_format, model_id, no_logging, cors_origin) ==
    [output_format |-> output_format, model_id |-> model_id,
     no_logging |-> no_logging, cors_origin |-> cors_origin]

DefaultOptions == Options(Str(<<"m", "p", "3">>), None, FALSE, "*")
TunedOptions == Options(Str(<<>>), Str(<<"m", "0">>), TRUE, "https://app.example")

OptionSets == {DefaultOptions, TunedOptions}

ApiKeys == {None, Str(<<"k">>)}

ServerConfig(api_key, default_voice_id, voice_map, opts) ==
    [api_key |-> api_key, default_voice_id |-> default_voice_id,
     voice_map |-> voice_map, output_format |-> opts.output_format,
     model_id |-> opts.model_id, enable_logging |-> ~opts.no_logging,
     cors_origin |-> opts.cors_origin]

NoConfig == ServerConfig(None, None, EmptyMap, DefaultOptions)

\* serve(): whether it calls resolve_voice_id for the default voice.
ServeResolves(voice_id, voice_name, env_voice_id) ==
    Truthy(voice_id) \/ Truthy(voice_name) \/ Truthy(env_voice_id)

\* resolve_voice_id as one call (the catalog answer is resp when it is fetched).
ResolveVoiceId(voice_id, env_voice_id, voice_name, resp) ==
    IF ResolveNeedsCatalog(voice_id, env_voice_id)
    THEN ResolveWithCatalog(voice_name, resp)
    ELSE Return(ResolveWithoutCatalog(voice_id, env_voice_id), <<>>)

\* main() in --serve mode up to serve_forever(): the first failure ends the process.
Startup(api_key, raw, voice_id, voice_name, env_voice_id, resp, opts) ==
    IF ~Truthy(api_key)
    THEN [phase |-> "exited", msg |-> <<"Set ELEVENLABS_API_KEY in .env (project-local)">>,
          config |-> NoConfig]
    ELSE IF LoadVoiceMapExit(raw) # <<>>
    THEN [phase |-> "exited", msg |-> LoadVoiceMapExit(raw), config |-> NoConfig]
    ELSE LET r == IF ServeResolves(voice_id, voice_name, env_voice_id)
                  THEN ResolveVoiceId(voice_id, env_voice_id, voice_name, resp)
                  ELSE Return(None, <<>>)
         IN  IF r.kind # "return"
             THEN [phase |-> "exited", msg |-> r.msg, config |-> NoConfig]
             ELSE [phase |-> "listening", msg |-> <<>>,
                   config |-> ServerConfig(api_key, r.value, LoadVoiceMap(raw), opts)]

-----------------------------------------------------------------------------
(* HTTP requests *)

\* The JSON object of a request body.  payload.get(k) is None both for a
\* missing key and for a JSON null, so None stands for either.
Payload(text, name, speaker, voice_id, model_id, output_format, voice_settings) ==
    [text |-> text, name |-> name, speaker |-> speaker, voice_id |-> voice_id,
     model_id |-> model_id, output_format |-> output_format,
     voice_settings |-> voice_settings]

EmptyPayload == Payload(None, None, None, None, None, None, None)

TextValues == {None, Str(<<>>), Str(<<" ">>), Str(<<" ", "h", "i", " ">>), Num(<<"7">>)}
NameValues == {None, Str(<<" ">>), Str(<<" ", "B", "o", "b">>)}
SpeakerValues == {None, Str(<<"A", "L">>)}
VoiceIdValues == {None, Str(<<" ">>), Str(<<" ", "v", "9", " ">>)}
ModelIdValues == {None, Str(<<"m", "1">>)}
OutputFormatValues == {None, Str(<<"p", "c", "m">>)}
VoiceSettingsValues == {None, Dict(<<>>), Dict(<<"s">>), Str(<<"b", "a", "d">>)}

Payloads ==
    {Payload(t, n, sp, v, m, f, vs) :
        t \in TextValues, n \in NameValues, sp \in SpeakerValues, v \in VoiceIdValues,
        m \in ModelIdValues, f \in OutputFormatValues, vs \in VoiceSettingsValues}

\* The bytes of a body: nothing, bytes that are not UTF-8, text that is not JSON,
\* a JSON object, or JSON of another type.
Body(kind, payload) == [kind |-> kind, payload |-> payload]

EmptyBody == Body("empty", EmptyPayload)
HiPayload == Payload(Str(<<"h", "i">>), None, None, Str(<<"v", "1">>), None, None, None)
OtherBodies ==
    {EmptyBody, Body("undecodable", EmptyPayload), Body("notjson", EmptyPayload),
     Body("array", EmptyPayload), Body("scalar", EmptyPayload),
     Body("object", EmptyPayload), Body("object", HiPayload)}

\* Content-Length against the body sent: no header, the body's length, not a
\* number, less than the body, more than the body (or negative: read to EOF).
ContentLengths == {"absent", "exact", "nonnumeric", "short", "over"}

Request(method, path, cl, body) ==
    [method |-> method, path |-> path, cl |-> cl, body |-> body]

NoRequest == Request("", "", "absent", EmptyBody)

PostRequests ==
    {Request("POST", "/tts", "exact", Body("object", p)) : p \in Payloads}
    \cup {r \in {Request("POST", path, cl, b) :
                    path \in {"/tts", "/other"}, cl \in ContentLengths,
                    b \in OtherBodies} :
            r.cl = "short" => r.body.kind \in {"object", "array"}}

OptionsRequests ==
    {Request("OPTIONS", path, cl, b) :
        path \in {"/tts", "/other"}, cl \in {"absent", "exact"},
        b \in {EmptyBody, Body("object", HiPayload)}}

OtherRequests ==
    {Request(m, path, "absent", EmptyBody) :
        m \in {"GET", "PUT"}, path \in {"/tts", "/other"}}

-----------------------------------------------------------------------------
(* Responses *)

Header(name, value) == [name |-> name, value |-> value]

JsonBody(error) == [kind |-> "json", error |-> error, audio |-> <<>>]
AudioBody(audio) == [kind |-> "audio", error |-> <<>>, audio |-> audio]
NoBody == [kind |-> "none", error |-> <<>>, audio |-> <<>>]

\* _send_json
SendJson(cfg, status, error) ==
    [status |-> status,
     headers |-> <<Header("Content-Type", "application/json"),
                   Header("Content-Length", "len(body)"),
                   Header("Access-Control-Allow-Origin", cfg.cors_origin)>>,
     body |-> JsonBody(error)]

\* _send_audio
SendAudio(cfg, audio) ==
    [status |-> 200,
     headers |-> <<Header("Content-Type", "audio/mpeg"),
                   Header("Content-Length", "len(audio)"),
                   Header("Access-Control-Allow-Origin", cfg.cors_origin)>>,
     body |-> AudioBody(audio)]

\* A slip: do_OPTIONS without the Access-Control-Allow-Headers line.
OptionsResponse_NoAllowHeaders(cfg) ==
    [status |-> 204,
     headers |-> <<Header("Access-Control-Allow-Origin", cfg.cors_origin),
                   Header("Access-Control-Allow-Methods", "POST, OPTIONS")>>,
     body |-> [kind |-> "none", error |-> <<>>, audio |-> <<>>]]

\* do_OPTIONS
OptionsResponse(cfg) ==
    [status |-> 204,
     headers |-> <<Header("Access-Control-Allow-Origin", cfg.cors_origin),
                   Header("Access-Control-Allow-Methods", "POST, OPTIONS"),
                   Header("Access-Control-Allow-Headers", "Content-Type")>>,
     body |-> NoBody]

\* The handler defines do_OPTIONS and do_POST only: for any other method the
\* inherited BaseHTTPRequestHandler answers with send_error(501).
UnsupportedMethodResponse ==
    [status |-> 501,
     headers |-> <<Header("Content-Type", "text/html;charset=utf-8"),
                   Header("Content-Length", "len(body)"),
                   Header("Connection", "close")>>,
     body |-> [kind |-> "html", error |-> <<"Unsupported", "method">>, audio |-> <<>>]]

MissingText == <<"Missing", "text">>
InvalidJson == <<"Invalid", "JSON">>
NotFound == <<"Not", "found">>
VoiceSettingsMustBeObject == <<"voice_settings", "must", "be", "an", "object">>
NoVoiceIdResolved ==
    <<"No", "voice_id", "resolved.", "Provide", "voice_id,", "set",
      "ELEVENLABS_VOICE_ID,", "or", "map", "name", "via", "ELEVENLABS_VOICE_MAP.">>

-----------------------------------------------------------------------------
(* synthesize_bytes *)

\* A slip: voice_settings is sent whenever it is not None, an empty object too.
SynthesizeCall_EmptySettings(api_key, voice_id, text, model_id, output_format, enable_logging, voice_settings) ==
    [endpoint |-> "POST /text-to-speech",
     voice_id |-> voice_id,
     api_key |-> api_key,
     params |-> (IF Truthy(output_format)
                 THEN {<<"output_format", output_format>>} ELSE {})
                \cup (IF ~enable_logging
                      THEN {<<"enable_logging", Str(<<"f", "a", "l", "s", "e">>)>>}
                      ELSE {}),
     json |-> {<<"text", Str(text)>>}
              \cup (IF Truthy(model_id) THEN {<<"model_id", model_id>>} ELSE {})
              \cup (IF voice_settings # None
                    THEN {<<"voice_settings", voice_settings>>} ELSE {}),
     timeout |-> 120]

\* The POST /text-to-speech/{voice_id} request that synthesize_bytes builds.
SynthesizeCall(api_key, voice_id, text, model_id, output_format, enable_logging, voice_settings) ==
    [endpoint |-> "POST /text-to-speech",
     voice_id |-> voice_id,
     api_key |-> api_key,
     params |-> (IF Truthy(output_format)
                 THEN {<<"output_format", output_format>>} ELSE {})
                \cup (IF ~enable_logging
                      THEN {<<"enable_logging", Str(<<"f", "a", "l", "s", "e">>)>>}
                      ELSE {}),
     json |-> {<<"text", Str(text)>>}
              \cup (IF Truthy(model_id) THEN {<<"model_id", model_id>>} ELSE {})
              \cup (IF Truthy(voice_settings)
                    THEN {<<"voice_settings", voice_settings>>} ELSE {}),
     timeout |-> 120]

\* What requests.post can do: a response (status, body), or an exception of
\* requests.exceptions (a connection failure, the timeout).
Answer(kind, status, json, data, empty) ==
    [kind |-> kind, status |-> status, json |-> json, data |-> data, empty |-> empty]

NoAnswer == Answer("none", 0, FALSE, "", FALSE)

SynthAnswers ==
    {Answer("response", 200, FALSE, "", e) : e \in BOOLEAN}
    \cup {Answer("response", st, j, IF j THEN "detail" ELSE "Bad Gateway", FALSE) :
            st \in {401, 500}, j \in BOOLEAN}
    \cup {Answer(exc, 0, FALSE, "", FALSE) : exc \in {"ConnectionError", "Timeout"}}

\* response.ok
ResponseOk(answer) == answer.status < 400

StatusStr(status) ==
    CASE status = 401 -> "401"
      [] status = 500 -> "500"
      [] OTHER -> "200"

\* request_json_or_text: the JSON dumped again if the body parses, else the text.
RequestJsonOrText(answer) ==
    IF answer.json THEN <<"{", answer.data, "}">> ELSE <<answer.data>>

\* The audio a successful answer carries: nothing, or audio of this very call.
Content(call, answer) == IF answer.empty THEN <<>> ELSE <<call>>

\* A slip: synthesize_bytes without its `if not response.ok` check.
SynthesizeBytes_NoOkCheck(call, answer) ==
    IF answer.kind # "response"
    THEN [kind |-> "raise", audio |-> <<>>, msg |-> <<answer.kind>>]
    ELSE [kind |-> "return", audio |-> Content(call, answer), msg |-> <<>>]

\* synthesize_bytes from the provider's answer on.
SynthesizeBytes(call, answer) ==
    IF answer.kind # "response"
    THEN [kind |-> "raise", audio |-> <<>>, msg |-> <<answer.kind>>]
    ELSE IF ~ResponseOk(answer)
    THEN [kind |-> "exit", audio |-> <<>>,
          msg |-> <<"TTS request failed", StatusStr(answer.status)>>
                  \o RequestJsonOrText(answer)]
    ELSE [kind |-> "return", audio |-> Content(call, answer), msg |-> <<>>]

-----------------------------------------------------------------------------
(* TTSRequestHandler.do_POST *)

\* length = int(self.headers.get("Content-Length", "0")) raises ValueError.
ReadRaises(req) == req.cl = "nonnumeric"

\* self.rfile.read(length) waits for bytes the client has not sent.
ReadBlocks(req) == req.cl = "over"

\* raw: the bytes read.  A proper prefix of a JSON object or array is not JSON.
ReadRaw(req) ==
    CASE req.cl = "absent" -> EmptyBody
      [] req.cl = "short" -> Body("notjson", EmptyPayload)
      [] OTHER -> req.body

\* A slip: the text is not stripped before the emptiness check.
PostText_NoStrip(payload) == PyStr(Or(payload.text, Str(<<>>)))

\* text = str(payload.get("text") or "").strip()
PostText(payload) == Strip(PyStr(Or(payload.text, Str(<<>>))))

\* name = str(payload.get("name") or payload.get("speaker") or "").strip()
PostName(payload) == Strip(PyStr(Or(Or(payload.name, payload.speaker), Str(<<>>))))

\* A slip: the configured default is tried before the voice map.
PostVoiceId_DefaultFirst(cfg, payload) ==
    LET own == Strip(PyStr(Or(payload.voice_id, Str(<<>>))))
        default == IF own = <<>> THEN PyStr(Or(cfg.default_voice_id, Str(<<>>))) ELSE own
    IN  IF default = <<>>
        THEN Get(cfg.voice_map, Lower(Strip(PyStr(Or(Or(payload.name, payload.speaker),
                                                      Str(<<>>))))), <<>>)
        ELSE default

\* voice_id: the body's, else the voice map's for the name, else the default.
PostVoiceId(cfg, payload) ==
    LET own == Strip(PyStr(Or(payload.voice_id, Str(<<>>))))
        mapped == IF own = <<>>
                  THEN Get(cfg.voice_map, Lower(PostName(payload)), <<>>)
                  ELSE own
    IN  IF mapped = <<>> THEN PyStr(Or(cfg.default_voice_id, Str(<<>>))) ELSE mapped

\* voice_settings is None or a dict
VoiceSettingsOk(payload) ==
    payload.voice_settings.t = "null" \/ IsDict(payload.voice_settings)

\* The call do_POST makes once the request has passed its checks.
PostCall(cfg, payload) ==
    SynthesizeCall(cfg.api_key, PostVoiceId(cfg, payload), PostText(payload),
                   Or(payload.model_id, cfg.model_id),
                   Or(payload.output_format, cfg.output_format),
                   cfg.enable_logging, payload.voice_settings)

\* How far a handler got: it sent a response and returned, it raised an
\* exception nobody catches, or it is inside requests.post.
Responded(response, trail) ==
    [pc |-> "closed", sent |-> <<response>>, exc |-> "", calls |-> <<>>,
     trail |-> trail \o <<"Responding">>]
Crashed(exc, trail) ==
    [pc |-> "closed", sent |-> <<>>, exc |-> exc, calls |-> <<>>, trail |-> trail]
Calling(call, trail) ==
    [pc |-> "synthesizing", sent |-> <<>>, exc |-> "", calls |-> <<call>>,
     trail |-> trail \o <<"Synthesizing">>]

\* do_POST from its first line to the provider call or to its return.
PostUntilCall(cfg, req) ==
    IF req.path # "/tts" THEN Responded(SendJson(cfg, 404, NotFound), <<>>)
    ELSE IF ReadRaises(req) THEN Crashed("ValueError", <<"ReadingRequest">>)
    ELSE IF ReadRaw(req).kind = "undecodable"
    THEN Crashed("UnicodeDecodeError", <<"ReadingRequest">>)
    ELSE IF ReadRaw(req).kind = "notjson"
    THEN Responded(SendJson(cfg, 400, InvalidJson), <<"ReadingRequest">>)
    ELSE IF ReadRaw(req).kind \in {"array", "scalar"}
    THEN Crashed("AttributeError", <<"ReadingRequest", "Validating">>)
    ELSE LET payload == ReadRaw(req).payload
         IN  IF PostText(payload) = <<>>
             THEN Responded(SendJson(cfg, 400, MissingText),
                            <<"ReadingRequest", "Validating">>)
             ELSE IF PostVoiceId(cfg, payload) = <<>>
             THEN Responded(SendJson(cfg, 400, NoVoiceIdResolved),
                            <<"ReadingRequest", "Validating", "Resolving">>)
             ELSE IF ~VoiceSettingsOk(payload)
             THEN Responded(SendJson(cfg, 400, VoiceSettingsMustBeObject),
                            <<"ReadingRequest", "Validating", "Resolving", "Validating">>)
             ELSE Calling(PostCall(cfg, payload),
                          <<"ReadingRequest", "Validating", "Resolving", "Validating">>)

\* A slip: a failed provider call is issued a second time before the 502.
PostAfterCall_Retry(cfg, call, answer, trail) ==
    LET r == SynthesizeBytes(call, answer)
    IN  CASE r.kind = "exit" ->
                [pc |-> "closed", sent |-> <<SendJson(cfg, 502, r.msg)>>, exc |-> "",
                 calls |-> <<call, call>>, trail |-> trail \o <<"Responding">>]
          [] r.kind = "raise" ->
                [pc |-> "closed", sent |-> <<>>, exc |-> r.msg[1],
                 calls |-> <<call>>, trail |-> trail]
          [] OTHER ->
                [pc |-> "closed", sent |-> <<SendAudio(cfg, r.audio)>>, exc |-> "",
                 calls |-> <<call>>, trail |-> trail \o <<"Responding">>]

\* do_POST from the return of synthesize_bytes on.
PostAfterCall(cfg, call, answer, trail) ==
    LET r == SynthesizeBytes(call, answer)
    IN  CASE r.kind = "exit" ->
                [pc |-> "closed", sent |-> <<SendJson(cfg, 502, r.msg)>>, exc |-> "",
                 calls |-> <<call>>, trail |-> trail \o <<"Responding">>]
          [] r.kind = "raise" ->
                [pc |-> "closed", sent |-> <<>>, exc |-> r.msg[1],
                 calls |-> <<call>>, trail |-> trail]
          [] OTHER ->
                [pc |-> "closed", sent |-> <<SendAudio(cfg, r.audio)>>, exc |-> "",
                 calls |-> <<call>>, trail |-> trail \o <<"Responding">>]

-----------------------------------------------------------------------------
(* The gateway: connections *)

\* A connection thread: where it is, its request, the responses it has sent,
\* the exception that ended it, the provider calls it made and their answer,
\* and the stages of the pipeline it went through.
Conn(step, req, answer) ==
    [pc |-> step.pc, req |-> req, sent |-> step.sent, exc |-> step.exc,
     calls |-> step.calls, answer |-> answer, trail |-> step.trail]

IdleConn ==
    [pc |-> "idle", req |-> NoRequest, sent |-> <<>>, exc |-> "", calls |-> <<>>,
     answer |-> NoAnswer, trail |-> <<>>]

Free(w) == server.phase = "listening" /\ conn[w].pc = "idle"

\* main() --serve: the configuration is built, or the process ends.
Serve ==
    /\ server.phase = "starting"
    /\ \E api_key \in ApiKeys, raw \in RawVoiceMaps, voice_id \in ArgVoiceIds,
          voice_name \in ArgVoiceNames, env_voice_id \in EnvVoiceIds,
          resp \in VoicesResponses, opts \in OptionSets :
          LET up == Startup(api_key, raw, voice_id, voice_name, env_voice_id, resp, opts)
          IN  /\ server' = [phase |-> up.phase, msg |-> up.msg]
              /\ config' = up.config
    /\ UNCHANGED <<conn, cli>>

\* A POST request, one of requests, arrives on a free connection and do_POST
\* runs until it returns or blocks.
HandlePOST(w, requests) ==
    /\ Free(w)
    /\ \E req \in requests :
          conn' = [conn EXCEPT ![w] =
                      IF req.path = "/tts" /\ ReadBlocks(req)
                      THEN [IdleConn EXCEPT !.pc = "reading", !.req = req,
                                            !.trail = <<"ReadingRequest">>]
                      ELSE Conn(PostUntilCall(config, req), req, NoAnswer)]
    /\ UNCHANGED <<server, config, cli>>

DoPOST(w) == HandlePOST(w, PostRequests)

\* The client ends its body: rfile.read returns what there is and do_POST goes on.
ReadReturns(w) ==
    /\ conn[w].pc = "reading"
    /\ conn' = [conn EXCEPT ![w] = Conn(PostUntilCall(config, conn[w].req),
                                        conn[w].req, NoAnswer)]
    /\ UNCHANGED <<server, config, cli>>

\* A slip: the pending call is kept in one place shared by all the threads, so
\* a thread may complete with the call of another.
ProviderAnswers_SharedCall(w) ==
    /\ conn[w].pc = "synthesizing"
    /\ \E answer \in SynthAnswers :
          LET v == CHOOSE v \in DOMAIN conn :
                      /\ conn[v].pc = "synthesizing"
                      /\ \A u \in DOMAIN conn : conn[u].pc = "synthesizing" => v <= u
          IN  conn' = [conn EXCEPT ![w] =
                          Conn(PostAfterCall(config, conn[v].calls[1], answer, conn[w].trail),
                               conn[w].req, answer)]
    /\ UNCHANGED <<server, config, cli>>

\* A slip: the handler remembers the voice it used as the new default.
ProviderAnswers_CachesVoice(w) ==
    /\ conn[w].pc = "synthesizing"
    /\ \E answer \in SynthAnswers :
          conn' = [conn EXCEPT ![w] =
                      Conn(PostAfterCall(config, conn[w].calls[1], answer, conn[w].trail),
                           conn[w].req, answer)]
    /\ config' = [config EXCEPT !.default_voice_id = Str(conn[w].calls[1].voice_id)]
    /\ UNCHANGED <<server, cli>>

\* requests.post returns or raises, and do_POST runs to its end.
ProviderAnswers(w) ==
    /\ conn[w].pc = "synthesizing"
    /\ \E answer \in SynthAnswers :
          conn' = [conn EXCEPT ![w] =
                      Conn(PostAfterCall(config, conn[w].calls[1], answer, conn[w].trail),
                           conn[w].req, answer)]
    /\ UNCHANGED <<server, config, cli>>

\* An OPTIONS request: do_OPTIONS.
DoOPTIONS(w) ==
    /\ Free(w)
    /\ \E req \in OptionsRequests :
          conn' = [conn EXCEPT ![w] =
                      Conn(Responded(OptionsResponse(config), <<>>), req, NoAnswer)]
    /\ UNCHANGED <<server, config, cli>>

\* A request of a method the handler does not define.
UnsupportedMethod(w) ==
    /\ Free(w)
    /\ \E req \in OtherRequests :
          conn' = [conn EXCEPT ![w] =
                      Conn(Responded(UnsupportedMethodResponse, <<>>), req, NoAnswer)]
    /\ UNCHANGED <<server, config, cli>>

\* The handler has returned or raised: the server shuts the connection down and
\* the thread ends (process_request_thread), ready for the next connection.
Finish(w) ==
    /\ conn[w].pc = "closed"
    /\ conn' = [conn EXCEPT ![w] = IdleConn]
    /\ UNCHANGED <<server, config, cli>>

Connections == {1}

Init ==
    /\ server = [phase |-> "starting", msg |-> <<>>]
    /\ config = NoConfig
    /\ conn = [w \in Connections |-> IdleConn]
    /\ cli = CliIdle

Next ==
    \/ Serve
    \/ \E w \in DOMAIN conn : DoPOST(w)
    \/ \E w \in DOMAIN conn : ReadReturns(w)
    \/ \E w \in DOMAIN conn : ProviderAnswers(w)
    \/ \E w \in DOMAIN conn : DoOPTIONS(w)
    \/ \E w \in DOMAIN conn : UnsupportedMethod(w)
    \/ \E w \in DOMAIN conn : Finish(w)

Spec == Init /\ [][Next]_vars

\* The CLI's voice resolution on its own: every argument and environment.
InitResolve ==
    /\ server = [phase |-> "cli", msg |-> <<>>]
    /\ config = NoConfig
    /\ conn = [w \in Connections |-> IdleConn]
    /\ cli \in {[CliIdle EXCEPT !.pc = "resolve", !.voice_id = v, !.env_voice_id = e,
                                !.voice_name = n] :
                  v \in ArgVoiceIds, e \in EnvVoiceIds, n \in ArgVoiceNames}

NextResolve == CliResolveVoiceId \/ CliListVoicesReturns

SpecResolve == InitResolve /\ [][NextResolve]_vars

\* The startup of the gateway step by step, for every environment and argument,
\* followed by requests that use the default voice.
Environment(api_key, raw_map, opts) == [api_key |-> api_key, raw_map |-> raw_map, opts |-> opts]

NoCatalog == [ok |-> FALSE, voices |-> <<>>]

\* main() and serve() need the catalog: the key and the voice map are good, and
\* resolve_voice_id is called and finds neither an explicit id nor a default.
ServeNeedsCatalog(env, args) ==
    /\ Truthy(env.api_key) /\ LoadVoiceMapExit(env.raw_map) = <<>>
    /\ ServeResolves(args.voice_id, args.voice_name, args.env_voice_id)
    /\ ResolveNeedsCatalog(args.voice_id, args.env_voice_id)

\* main() --serve from get_api_key on: it ends the process, or reaches
\* serve_forever, or is in list_voices waiting for the catalog.
MainServe ==
    /\ server.phase = "starting" /\ cli.pc = "main"
    /\ IF ServeNeedsCatalog(server.env, cli)
       THEN /\ cli' = [cli EXCEPT !.pc = "list_voices", !.fetches = @ + 1]
            /\ UNCHANGED <<server, config>>
       ELSE LET up == Startup(server.env.api_key, server.env.raw_map, cli.voice_id,
                              cli.voice_name, cli.env_voice_id, NoCatalog, server.env.opts)
            IN  /\ server' = [server EXCEPT !.phase = up.phase, !.msg = up.msg]
                /\ config' = up.config
                /\ cli' = [cli EXCEPT !.pc = "served",
                               !.outcome = IF ServeResolves(cli.voice_id, cli.voice_name,
                                                            cli.env_voice_id)
                                           THEN ResolveVoiceId(cli.voice_id, cli.env_voice_id,
                                                               cli.voice_name, NoCatalog)
                                           ELSE NoOutcome]
    /\ UNCHANGED conn

\* list_voices answers: resolve_voice_id and serve() run on to serve_forever or
\* to the end of the process.
ServeListVoicesReturns ==
    /\ server.phase = "starting" /\ cli.pc = "list_voices"
    /\ \E resp \in VoicesResponses :
          LET up == Startup(server.env.api_key, server.env.raw_map, cli.voice_id,
                            cli.voice_name, cli.env_voice_id, resp, server.env.opts)
          IN  /\ server' = [server EXCEPT !.phase = up.phase, !.msg = up.msg]
              /\ config' = up.config
              /\ cli' = [cli EXCEPT !.pc = "served", !.catalog = resp,
                             !.outcome = ResolveWithCatalog(cli.voice_name, resp)]
    /\ UNCHANGED conn

\* {"text": "hi"}: the voice is the configured default, if there is one.
StartupRequests ==
    {Request("POST", "/tts", "exact",
             Body("object", Payload(Str(<<"h", "i">>), None, None, None, None, None, None)))}

StartupPOST(w) == HandlePOST(w, StartupRequests)

InitStartup ==
    /\ server \in {[phase |-> "starting", msg |-> <<>>, env |-> Environment(k, raw, opts)] :
                      k \in ApiKeys, raw \in RawVoiceMaps, opts \in OptionSets}
    /\ config = NoConfig
    /\ conn = [w \in Connections |-> IdleConn]
    /\ cli \in {[CliIdle EXCEPT !.pc = "main", !.voice_id = v, !.env_voice_id = e,
                                !.voice_name = n] :
                  v \in ArgVoiceIds, e \in EnvVoiceIds, n \in ArgVoiceNames}

NextStartup ==
    \/ MainServe
    \/ ServeListVoicesReturns
    \/ \E w \in DOMAIN conn : StartupPOST(w)
    \/ \E w \in DOMAIN conn : ProviderAnswers(w)
    \/ \E w \in DOMAIN conn : Finish(w)

SpecStartup == InitStartup /\ [][NextStartup]_vars

\* The gateway under concurrent load: TTSServer gives each connection a thread
\* of its own, and the threads' steps interleave.
NumWorkers == 2

BobPayload ==
    Payload(Str(<<" ", "h", "i", " ">>), Str(<<" ", "B", "o", "b">>), None, None,
            Str(<<"m", "1">>), None, Dict(<<"s">>))

\* Requests that succeed, and requests that fail with 400 and with 404.
ConcRequests ==
    {Request("POST", "/tts", "exact", Body("object", HiPayload)),
     Request("POST", "/tts", "exact", Body("object", BobPayload)),
     Request("POST", "/tts", "exact", Body("object", EmptyPayload)),
     Request("POST", "/other", "exact", Body("object", HiPayload))}

ConcPOST(w) == HandlePOST(w, ConcRequests)

\* The gateway as serve() leaves it for three environments: a voice map and an
\* explicit default voice, neither of them, and a voice map alone.
ConcStartups ==
    {Startup(Str(<<"k">>), RawTeam, Str(<<"v", "x">>), None, None,
             [ok |-> FALSE, voices |-> <<>>], DefaultOptions),
     Startup(Str(<<"k">>), RawUnset, None, None, None,
             [ok |-> FALSE, voices |-> <<>>], TunedOptions),
     Startup(Str(<<"k">>), RawBlank, None, None, None,
             [ok |-> FALSE, voices |-> <<>>], DefaultOptions)}

InitConc ==
    /\ \E up \in ConcStartups :
          /\ up.phase = "listening"
          /\ server = [phase |-> up.phase, msg |-> up.msg]
          /\ config = up.config
    /\ conn = [w \in 1..NumWorkers |-> IdleConn]
    /\ cli = CliIdle

NextConc ==
    \/ \E w \in DOMAIN conn : ConcPOST(w)
    \/ \E w \in DOMAIN conn : ProviderAnswers(w)
    \/ \E w \in DOMAIN conn : Finish(w)

SpecConc == InitConc /\ [][NextConc]_vars

-----------------------------------------------------------------------------
(* Properties of the gateway *)

\* The connections whose handler has returned or raised.
Handled == {w \in DOMAIN conn : conn[w].pc = "closed"}

IsPostTts(req) == req.method = "POST" /\ req.path = "/tts"

\* The handler gets the body as a JSON object (no bytes at all count as {}).
ReadsObject(req) ==
    \/ req.cl = "absent"
    \/ req.cl \in {"exact", "over"} /\ req.body.kind \in {"object", "empty"}

\* The JSON object the handler gets from such a request.
SeenPayload(req) ==
    IF req.cl # "absent" /\ req.body.kind = "object" THEN req.body.payload
    ELSE EmptyPayload

\* A field that is missing, empty or only whitespace.
IsBlank(v) == ~Truthy(v) \/ (v.t = "str" /\ \A i \in DOMAIN v.s : IsSpace(v.s[i]))

Mentions(msg, word) == \E i \in DOMAIN msg : msg[i] = word

HasHeader(response, name, value) ==
    \E i \in DOMAIN response.headers :
        response.headers[i] = [name |-> name, value |-> value]

\* The one response of a connection is a JSON error envelope with this status.
SentError(c, status) ==
    /\ Len(c.sent) = 1
    /\ c.sent[1].status = status
    /\ c.sent[1].body.kind = "json"

\* The value of a field of a provider call's JSON body.
JsonField(call, key) == {p[2] : p \in {q \in call.json : q[1] = key}}

\* C1: the provider is called only with a non-empty voice id and a text that is
\* non-empty after trimming; a POST /tts request whose text is missing, empty or
\* whitespace-only is answered 400 {"error": "Missing text"} and makes no call.
C1_CallNeedsVoiceAndText ==
    \A w \in DOMAIN conn :
        /\ \A i \in DOMAIN conn[w].calls :
              /\ conn[w].calls[i].voice_id # <<>>
              /\ \E t \in JsonField(conn[w].calls[i], "text") : Strip(t.s) # <<>>
        /\ (w \in Handled /\ IsPostTts(conn[w].req) /\ ReadsObject(conn[w].req)
              /\ IsBlank(SeenPayload(conn[w].req).text))
           => /\ SentError(conn[w], 400)
              /\ conn[w].sent[1].body.error = <<"Missing", "text">>
              /\ conn[w].calls = <<>>

C1_Witness ==
    \E w \in Handled :
        /\ IsPostTts(conn[w].req) /\ conn[w].req.cl = "exact"
        /\ conn[w].req.body.kind = "object"
        /\ conn[w].req.body.payload.text = Str(<<" ">>)
        /\ conn[w].req.body.payload.voice_id = Str(<<" ", "v", "9", " ">>)
        /\ SentError(conn[w], 400)

\* The gateway's resolution chain, as the specification words it: the first
\* non-empty of (a) the body's trimmed voice_id, (b) the voice map's entry for
\* the trimmed, lower-cased speaker name (name, else speaker), (c) the default.
ChainCandidates(cfg, payload) ==
    LET speakerName == IF Truthy(payload.name) THEN payload.name ELSE payload.speaker
        key == IF Truthy(speakerName) THEN Lower(Strip(PyStr(speakerName))) ELSE <<>>
    IN  <<IF Truthy(payload.voice_id) THEN Strip(PyStr(payload.voice_id)) ELSE <<>>,
          IF key \in DOMAIN cfg.voice_map THEN cfg.voice_map[key] ELSE <<>>,
          IF Truthy(cfg.default_voice_id) THEN cfg.default_voice_id.s ELSE <<>>>>

ChainResult(cfg, payload) ==
    LET found == SelectSeq(ChainCandidates(cfg, payload), LAMBDA v : v # <<>>)
    IN  IF found = <<>> THEN <<>> ELSE found[1]

\* C2: the voice id passed to the provider is the result of the chain body
\* voice_id, voice map entry of the speaker name, default voice id (first
\* non-empty wins); when all three are empty the request ends with a 400 error
\* and no provider call.
C2_GatewayChain ==
    \A w \in DOMAIN conn :
        /\ \A i \in DOMAIN conn[w].calls :
              conn[w].calls[i].voice_id = ChainResult(config, SeenPayload(conn[w].req))
        /\ (w \in Handled /\ IsPostTts(conn[w].req) /\ ReadsObject(conn[w].req)
              /\ ~IsBlank(SeenPayload(conn[w].req).text)
              /\ ChainResult(config, SeenPayload(conn[w].req)) = <<>>)
           => /\ SentError(conn[w], 400)
              /\ conn[w].calls = <<>>

\* The voice map decides although a default is configured and a speaker is given too.
C2_Witness ==
    \E w \in DOMAIN conn :
        /\ Len(conn[w].calls) = 1
        /\ conn[w].calls[1].voice_id = <<"v", "b">>
        /\ conn[w].req.body.payload.name = Str(<<" ", "B", "o", "b">>)
        /\ conn[w].req.body.payload.speaker = Str(<<"A", "L">>)
        /\ conn[w].req.body.payload.voice_id = Str(<<" ">>)
        /\ Truthy(config.default_voice_id)

\* C3: a POST /tts request with non-empty text whose voice_settings is present
\* but not an object is answered 400 with a message mentioning voice_settings,
\* in every configuration, and makes no provider call.
C3_BadVoiceSettingsRejected ==
    \A w \in Handled :
        (/\ IsPostTts(conn[w].req) /\ ReadsObject(conn[w].req)
         /\ ~IsBlank(SeenPayload(conn[w].req).text)
         /\ SeenPayload(conn[w].req).voice_settings.t \notin {"null", "dict"})
        => /\ SentError(conn[w], 400)
           /\ Mentions(conn[w].sent[1].body.error, "voice_settings")
           /\ conn[w].calls = <<>>

\* The body does not reach the handler as a JSON object: bytes that are not
\* UTF-8, text that is not JSON (a truncated body too), JSON of another type.
NotStructured(req) ==
    \/ req.cl \in {"exact", "over"}
          /\ req.body.kind \in {"undecodable", "notjson", "array", "scalar"}
    \/ req.cl = "short"

\* C4: a POST /tts request whose body is not valid structured data is answered
\* 400 "Invalid JSON" and never reaches validation, resolution or the provider.
C4_InvalidBodyRejected ==
    \A w \in Handled :
        (IsPostTts(conn[w].req) /\ NotStructured(conn[w].req))
        => /\ SentError(conn[w], 400)
           /\ conn[w].sent[1].body.error = <<"Invalid", "JSON">>
           /\ \A i \in DOMAIN conn[w].trail :
                 conn[w].trail[i] \notin {"Validating", "Resolving", "Synthesizing"}
           /\ conn[w].calls = <<>>

\* C5: a non-success answer of the provider ends the request with 502 and a JSON
\* error carrying the provider's status and error body; no audio, no 200.
C5_ProviderErrorIs502 ==
    \A w \in Handled :
        (conn[w].answer.kind = "response" /\ conn[w].answer.status >= 400)
        => /\ SentError(conn[w], 502)
           /\ Mentions(conn[w].sent[1].body.error, StatusStr(conn[w].answer.status))
           /\ Mentions(conn[w].sent[1].body.error, conn[w].answer.data)
           /\ conn[w].sent[1].body.audio = <<>>

C5_Witness ==
    \E w \in Handled :
        /\ conn[w].answer.kind = "response" /\ conn[w].answer.status = 401
        /\ conn[w].answer.json
        /\ SentError(conn[w], 502)

\* C6: a network or timeout failure of the provider call ends the request with
\* 502 and a JSON error envelope, like a provider error.
C6_TransportErrorIs502 ==
    \A w \in Handled :
        conn[w].answer.kind \in {"ConnectionError", "Timeout"} => SentError(conn[w], 502)

\* C7: every response the gateway sends, for every method and path, carries
\* Access-Control-Allow-Origin set to the configured origin.
C7_EveryResponseHasCors ==
    \A w \in DOMAIN conn :
        \A i \in DOMAIN conn[w].sent :
            HasHeader(conn[w].sent[i], "Access-Control-Allow-Origin", config.cors_origin)

\* C8: OPTIONS /tts is answered 204 with no body and the three CORS headers, in
\* every configuration, without reading or validating a body, resolving a voice
\* or calling the provider.
C8_Preflight ==
    \A w \in Handled :
        (conn[w].req.method = "OPTIONS" /\ conn[w].req.path = "/tts")
        => /\ Len(conn[w].sent) = 1
           /\ conn[w].sent[1].status = 204
           /\ conn[w].sent[1].body.kind = "none"
           /\ HasHeader(conn[w].sent[1], "Access-Control-Allow-Origin", config.cors_origin)
           /\ HasHeader(conn[w].sent[1], "Access-Control-Allow-Methods", "POST, OPTIONS")
           /\ HasHeader(conn[w].sent[1], "Access-Control-Allow-Headers", "Content-Type")
           /\ conn[w].trail = <<"Responding">>
           /\ conn[w].calls = <<>>

\* A preflight with a body, against a gateway with no voice map and no default.
C8_Witness ==
    \E w \in Handled :
        /\ conn[w].req.method = "OPTIONS" /\ conn[w].req.path = "/tts"
        /\ conn[w].req.body.kind = "object"
        /\ config.voice_map = EmptyMap /\ ~Truthy(config.default_voice_id)
        /\ config.cors_origin = "https://app.example"
        /\ Len(conn[w].sent) = 1

\* C9: a request whose path is not /tts is answered 404 {"error": "Not found"},
\* whatever its method and body, and never reaches the provider.
C9_OtherPathIs404 ==
    \A w \in Handled :
        conn[w].req.path # "/tts"
        => /\ SentError(conn[w], 404)
           /\ conn[w].sent[1].body.error = <<"Not", "found">>
           /\ conn[w].calls = <<>>

-----------------------------------------------------------------------------
(* Properties of resolve_voice_id *)

\* The voices of a list whose name has the query in it, case ignored.
MatchingIndexes(voices, query) ==
    {i \in DOMAIN voices :
        Contains(Lower(Strip(query)),
                 Lower(IF voices[i].name.t = "str" THEN voices[i].name.s ELSE <<>>))}

\* The outcome is the result of the name match: no match and several matches
\* fail, one match gives that voice's voice_id (KeyError if it has none).
IsNameMatchResult(o, voices, query) ==
    LET m == MatchingIndexes(voices, query)
    IN  CASE m = {} -> o.kind = "exit" /\ o.msg = <<"No voice matched name query">>
          [] Cardinality(m) > 1 -> o.kind = "exit" /\ o.msg = <<"1">>
          [] OTHER -> LET v == voices[CHOOSE i \in m : TRUE]
                      IN  IF v.has_id THEN o.kind = "return" /\ o.value = v.voice_id
                          ELSE o.kind = "raise"

\* Steps (1) to (3) of the precedence, and the count of catalog fetches; Last
\* states step (4) for a catalog that was fetched and is not empty.
Precedence(Last(_, _)) ==
    /\ cli.fetches <= 1
    /\ cli.pc = "list_voices" => cli.fetches = 1
    /\ cli.pc = "done" =>
        LET o == cli.outcome
            voices == cli.catalog.voices
        IN  IF Truthy(cli.voice_id)
            THEN o.kind = "return" /\ o.value = cli.voice_id /\ cli.fetches = 0
            ELSE IF Truthy(cli.env_voice_id)
            THEN o.kind = "return" /\ o.value = cli.env_voice_id /\ cli.fetches = 0
            ELSE /\ cli.fetches = 1
                 /\ IF ~cli.catalog.ok THEN o.kind = "exit" /\ o.msg = <<"List voices failed">>
                    ELSE IF Truthy(cli.voice_name)
                    THEN IsNameMatchResult(o, voices, cli.voice_name.s)
                    ELSE IF voices = <<>>
                    THEN o.kind = "exit"
                         /\ o.msg = <<"No voices returned. Check your ElevenLabs account.">>
                    ELSE Last(o, voices)

\* C10 as stated: (1) a non-empty explicit id, (2) else a non-empty environment
\* default, (3) else the name match over the fetched catalog if a name query is
\* given, (4) else NoVoicesAvailableError for an empty catalog and otherwise the
\* id of the first voice; the catalog is fetched only for (3) and (4), once.
C10_AsStated ==
    Precedence(LAMBDA o, voices :
        o.kind = "return" /\ voices[1].has_id /\ o.value = voices[1].voice_id)

\* C10, amended: as stated, but in (4) a first voice without a non-empty
\* voice_id ends the resolution with "First voice is missing a voice_id."
C10_Precedence ==
    Precedence(LAMBDA o, voices :
        IF voices[1].has_id /\ voices[1].voice_id.s # <<>>
        THEN o.kind = "return" /\ o.value = voices[1].voice_id
        ELSE o.kind = "exit" /\ o.msg = <<"First voice is missing a voice_id.">>)

\* Empty explicit id and name query, no default: the first of two voices is taken.
C10_Witness ==
    /\ cli.pc = "done" /\ cli.fetches = 1
    /\ cli.voice_id = Str(<<>>) /\ cli.voice_name = Str(<<>>)
    /\ cli.catalog.ok /\ cli.catalog.voices = <<Adam, Nadia>>
    /\ cli.outcome.kind = "return" /\ cli.outcome.value = Str(<<"v", "a">>)

-----------------------------------------------------------------------------
(* Properties of pick_voice_by_name *)

\* The voices of a list, in order, that Match(name, query) selects.
Selected(voices, query, Match(_, _)) ==
    SelectSeq(voices, LAMBDA v : Match(IF v.name.t = "str" THEN v.name.s ELSE <<>>, query))

\* The lines list the voices of a list, one per voice and in order.
Lists(printed, voices) ==
    /\ Len(printed) = Len(voices)
    /\ \A i \in DOMAIN voices :
          /\ printed[i].label = (IF voices[i].name.t = "str" THEN voices[i].name.s ELSE <<>>)
          /\ printed[i].voice_id = (IF voices[i].has_id /\ voices[i].voice_id.t = "str"
                                    THEN voices[i].voice_id.s ELSE <<>>)

\* A resolution that went through the name match: no explicit id, no default,
\* a name query, and a catalog that was fetched.
NameLookupDone ==
    /\ cli.pc = "done" /\ cli.catalog.ok /\ Truthy(cli.voice_name)
    /\ ~Truthy(cli.voice_id) /\ ~Truthy(cli.env_voice_id)

\* The name lookup over the matching voices: none fails with "No voice matched
\* name query", one gives what One says of it, several fail listing exactly them.
NameLookup(Match(_, _), One(_, _)) ==
    NameLookupDone =>
        LET o == cli.outcome
            m == Selected(cli.catalog.voices, cli.voice_name.s, Match)
        IN  CASE m = <<>> -> /\ o.kind = "exit"
                            /\ o.msg = <<"No voice matched name query">>
                            /\ o.printed = <<>>
              [] Len(m) = 1 -> One(o, m[1])
              [] OTHER -> /\ o.kind = "exit" /\ o.msg = <<"1">>
                          /\ o.value = None
                          /\ Lists(o.printed, m)

\* The query "ada" was looked up in a catalog holding Adam and Nadia.
AdaLookup ==
    /\ NameLookupDone
    /\ cli.voice_name = Str(<<"a", "d", "a">>)
    /\ cli.catalog.voices \in {<<Adam, Nadia>>, <<Nadia, Adam>>}

\* C11 as stated: a voice matches iff the lower-cased query is a substring of
\* its lower-cased name; no match fails with NoVoiceMatchedError, one match
\* returns that voice's id, several fail with AmbiguousVoiceError listing
\* exactly the matching voices and return no id; the query "ada" with Adam and
\* Nadia in the catalog is ambiguous and lists exactly those two.
C11_AsStated ==
    /\ NameLookup(LAMBDA name, query : Contains(Lower(query), Lower(name)),
                  LAMBDA o, v : o.kind = "return" /\ v.has_id /\ o.value = v.voice_id)
    /\ AdaLookup =>
          /\ cli.outcome.kind = "exit" /\ cli.outcome.msg = <<"1">>
          /\ Lists(cli.outcome.printed, cli.catalog.voices)

\* C11, amended: a voice matches iff the query, trimmed of surrounding
\* whitespace and lower-cased, is a substring of its lower-cased name; no match
\* fails with NoVoiceMatchedError, one match returns that voice's voice_id
\* field (a KeyError when the voice has no such field), several fail with
\* AmbiguousVoiceError listing exactly the matching voices and return no id;
\* the query "ada" with Adam and Nadia in the catalog matches Adam alone and
\* returns its id.
C11_NameLookup ==
    /\ NameLookup(LAMBDA name, query : Contains(Lower(Strip(query)), Lower(name)),
                  LAMBDA o, v : IF v.has_id THEN o.kind = "return" /\ o.value = v.voice_id
                                ELSE o.kind = "raise" /\ o.msg = <<"KeyError">>)
    /\ AdaLookup => cli.outcome.kind = "return" /\ cli.outcome.value = Adam.voice_id

\* "ad" over Adam and Nadia is ambiguous and lists those two; no id comes back.
C11_Witness ==
    /\ NameLookupDone
    /\ cli.voice_name = Str(<<"a", "d">>)
    /\ cli.catalog.voices = <<Adam, Nadia>>
    /\ cli.outcome.kind = "exit" /\ cli.outcome.msg = <<"1">>
    /\ cli.outcome.value = None
    /\ Len(cli.outcome.printed) = 2
    /\ cli.outcome.printed[1].voice_id = <<"v", "a">>
    /\ cli.outcome.printed[2].voice_id = <<"v", "n">>

-----------------------------------------------------------------------------
(* Properties of the resolution as a whole *)

\* The failures resolve_voice_id and pick_voice_by_name signal on purpose,
\* each a SystemExit with its message.
ResolutionErrors ==
    {<<"List voices failed">>, <<"No voice matched name query">>, <<"1">>,
     <<"No voices returned. Check your ElevenLabs account.">>,
     <<"First voice is missing a voice_id.">>}

\* C12: for every explicit id, environment default, name query and catalog, a
\* finished resolution has returned a voice id or has failed with one of the
\* resolution errors.
C12_Total ==
    cli.pc = "done" =>
        \/ cli.outcome.kind = "return" /\ cli.outcome.value.t = "str"
        \/ cli.outcome.kind = "exit" /\ cli.outcome.msg \in ResolutionErrors

-----------------------------------------------------------------------------
(* Properties of the provider calls of a request *)

\* C13: a gateway request makes at most one provider call, a synthesis call
\* and never a catalog fetch; a failed call is answered 502 with that one call
\* made; and a request whose call has started has sent nothing before the
\* provider's answer (a response, or the exception of a failure or timeout).
C13_NoRetry ==
    \A w \in DOMAIN conn :
        LET c == conn[w]
        IN  /\ Len(c.calls) <= 1
            /\ \A i \in DOMAIN c.calls : c.calls[i].endpoint = "POST /text-to-speech"
            /\ c.pc = "synthesizing" =>
                  c.sent = <<>> /\ c.answer = NoAnswer /\ ~Mentions(c.trail, "Responding")
            /\ (c.calls # <<>> /\ Mentions(c.trail, "Responding")) =>
                  c.answer.kind \in {"response", "ConnectionError", "Timeout"}
            /\ (c.pc = "closed" /\ c.answer.kind = "response" /\ c.answer.status >= 400) =>
                  Len(c.calls) = 1 /\ SentError(c, 502)

\* The provider answered 500: one call was made and the request is answered 502.
C13_Witness ==
    \E w \in DOMAIN conn :
        /\ conn[w].pc = "closed" /\ conn[w].answer.status = 500
        /\ Len(conn[w].calls) = 1
        /\ SentError(conn[w], 502)
        /\ conn[w].trail[Len(conn[w].trail)] = "Responding"

-----------------------------------------------------------------------------
(* Properties of concurrent requests *)

\* What a request gets when it is handled alone: how far do_POST is, with the
\* provider's answer if it has come.
Alone(cfg, req, answer) ==
    LET first == PostUntilCall(cfg, req)
    IN  IF first.pc = "synthesizing" /\ answer # NoAnswer
        THEN PostAfterCall(cfg, first.calls[1], answer, first.trail)
        ELSE first

\* The connection is idle, or it is where its own request, handled alone with
\* the answer the provider gave to it, would be.
OwnResponse(c, cfg) ==
    \/ c = IdleConn
    \/ c = Conn(Alone(cfg, c.req, c.answer), c.req, c.answer)

\* C14: in every interleaving each connection's response is the one computed
\* from its own request (text, voice, options) and its own provider answer,
\* and a step of one connection, failing or not, leaves every other
\* connection's request and response as they are.
C14_Isolation ==
    [][\A w \in DOMAIN conn :
          /\ OwnResponse(conn'[w], config')
          /\ conn'[w] # conn[w] => \A v \in DOMAIN conn \ {w} : conn'[v] = conn[v]
          /\ (conn[w].pc # "idle" /\ conn'[w].pc # "idle") => conn'[w].req = conn[w].req]_vars

\* Two requests in flight at once: one has its own audio, the other failed 404.
C14_Witness ==
    \E v, w \in DOMAIN conn :
        /\ v # w
        /\ conn[v].pc = "closed" /\ conn[v].req.body.payload = BobPayload
        /\ Len(conn[v].sent) = 1 /\ conn[v].sent[1].status = 200
        /\ conn[v].sent[1].body.audio = conn[v].calls
        /\ JsonField(conn[v].calls[1], "text") = {Str(<<"h", "i">>)}
        /\ conn[w].pc = "closed" /\ SentError(conn[w], 404)

-----------------------------------------------------------------------------
(* Properties of the shared configuration *)

\* Two connections carried the same request and the provider answered 200 to
\* both in the same way.
SameRequestTwice(v, w) ==
    /\ v # w
    /\ conn[v].pc = "closed" /\ conn[w].pc = "closed"
    /\ conn[v].req = conn[w].req
    /\ conn[v].answer.kind = "response" /\ conn[v].answer.status = 200
    /\ conn[w].answer = conn[v].answer

\* The same request, answered twice: two 200 responses with the same audio.
IdenticalAudio ==
    \A v, w \in DOMAIN conn :
        SameRequestTwice(v, w) =>
            /\ Len(conn[v].sent) = 1 /\ Len(conn[w].sent) = 1
            /\ conn[v].sent[1].status = 200 /\ conn[w].sent[1].status = 200
            /\ conn[v].sent[1].body = conn[w].sent[1].body

-----------------------------------------------------------------------------
(* Properties of the provider call *)

Keys(pairs) == {p[1] : p \in pairs}

\* The value of a key of the call's query string.
Param(call, key) == {p[2] : p \in {q \in call.params : q[1] = key}}

\* Python's notion of a value that was given and is not empty.
NonEmpty(v) ==
    CASE v.t = "null" -> FALSE
      [] v.t = "str" -> v.s # <<>>
      [] v.t = "dict" -> v.s # <<>>
      [] OTHER -> TRUE

\* C16: the body of every provider call has the text; it has model_id iff the
\* model id handed to synthesize_bytes is non-empty, and voice_settings iff the
\* voice settings are non-empty; the query string has output_format iff an
\* output format is specified, and the logging-disable flag iff logging is off.
C16_CallShape ==
    \A w \in DOMAIN conn : \A i \in DOMAIN conn[w].calls :
        LET call == conn[w].calls[i]
            payload == SeenPayload(conn[w].req)
            model_id == IF NonEmpty(payload.model_id) THEN payload.model_id
                        ELSE config.model_id
            output_format == IF NonEmpty(payload.output_format) THEN payload.output_format
                             ELSE config.output_format
        IN  /\ Cardinality(JsonField(call, "text")) = 1
            /\ Keys(call.json) \subseteq {"text", "model_id", "voice_settings"}
            /\ Keys(call.params) \subseteq {"output_format", "enable_logging"}
            /\ JsonField(call, "model_id") = (IF NonEmpty(model_id) THEN {model_id} ELSE {})
            /\ JsonField(call, "voice_settings") =
                  (IF NonEmpty(payload.voice_settings) THEN {payload.voice_settings} ELSE {})
            /\ Param(call, "output_format") =
                  (IF NonEmpty(output_format) THEN {output_format} ELSE {})
            /\ Param(call, "enable_logging") =
                  (IF config.enable_logging THEN {} ELSE {Str(<<"f", "a", "l", "s", "e">>)})

\* A call with an empty voice_settings object and no output format, logging
\* off: the body has text and the configured model, the query the flag alone.
C16_Witness ==
    \E w \in DOMAIN conn :
        /\ conn[w].calls # <<>>
        /\ SeenPayload(conn[w].req).voice_settings = Dict(<<>>)
        /\ Keys(conn[w].calls[1].json) = {"text", "model_id"}
        /\ Keys(conn[w].calls[1].params) = {"enable_logging"}
        /\ ~config.enable_logging

\* C17: a synthesize_bytes call for a non-empty text and a resolved voice id
\* has exactly one outcome, whatever the provider does: it returns non-empty
\* audio (which the handler sends with 200), or it fails with the provider
\* error (which the handler answers 502).
C17_OneOutcome ==
    \A w \in Handled :
        conn[w].calls # <<>> =>
            LET c == conn[w]
                audio == /\ Len(c.sent) = 1 /\ c.sent[1].status = 200
                         /\ c.sent[1].body.kind = "audio" /\ c.sent[1].body.audio # <<>>
                error == SentError(c, 502)
            IN  (audio \/ error) /\ ~(audio /\ error)

-----------------------------------------------------------------------------
(* Properties of the startup *)

\* The normalised key of an item of the raw voice map, and its stripped value.
ItemKey(item) == Lower(Strip(item.key))
ItemValue(item) == Strip(PyStr(item.value))

\* m is the raw map loaded: unset gives the empty map; an object gives its
\* non-null items under their normalised keys, the last item of a key winning.
MapLoaded(m, raw) ==
    LET live == {i \in DOMAIN raw.items : raw.items[i].value # None}
    IN  /\ raw.kind \in {"unset", "dict"}
        /\ DOMAIN m = {ItemKey(raw.items[i]) : i \in live}
        /\ \A i \in live :
              (\A j \in live : j > i => ItemKey(raw.items[j]) # ItemKey(raw.items[i]))
                  => m[ItemKey(raw.items[i])] = ItemValue(raw.items[i])

\* The default voice id is the one the arguments and the environment give: the
\* explicit id, else the environment's, else the one found by name in the
\* catalog fetched once, else none.
DefaultResolved ==
    IF NonEmpty(cli.voice_id) THEN config.default_voice_id = cli.voice_id /\ cli.fetches = 0
    ELSE IF NonEmpty(cli.env_voice_id)
    THEN config.default_voice_id = cli.env_voice_id /\ cli.fetches = 0
    ELSE IF NonEmpty(cli.voice_name)
    THEN /\ cli.fetches = 1 /\ cli.catalog.ok
         /\ cli.outcome.kind = "return" /\ config.default_voice_id = cli.outcome.value
    ELSE config.default_voice_id = None /\ cli.fetches = 0

\* The API key is missing, or the voice map is not JSON or not a JSON object.
BadEnvironment ==
    \/ ~NonEmpty(server.env.api_key)
    \/ server.env.raw_map.kind \in {"notjson", "list"}

\* C18: with a missing API key or a malformed voice map the process ends at
\* startup, before any fetch and without ever listening; a connection is
\* handled only by a listening server; and a listening server has its whole
\* configuration: the API key, the voice map loaded, the default voice resolved.
C18_FatalAtStartup ==
    /\ BadEnvironment => server.phase \in {"starting", "exited"} /\ cli.fetches = 0
    /\ (BadEnvironment /\ cli.pc # "main") => server.phase = "exited" /\ server.msg # <<>>
    /\ \A w \in DOMAIN conn : conn[w] # IdleConn => server.phase = "listening"
    /\ server.phase = "listening" =>
          /\ cli.pc = "served"
          /\ config.api_key = server.env.api_key
          /\ MapLoaded(config.voice_map, server.env.raw_map)
          /\ DefaultResolved

\* A voice map that is a JSON list: the process has ended with the message,
\* no connection was handled.
C18_Witness ==
    /\ server.phase = "exited"
    /\ NonEmpty(server.env.api_key) /\ server.env.raw_map = RawList
    /\ server.msg = <<"ELEVENLABS_VOICE_MAP must be a JSON object">>
    /\ \A w \in DOMAIN conn : conn[w] = IdleConn
    /\ config = NoConfig

-----------------------------------------------------------------------------
(* Properties of every POST request *)

\* C19: a POST request whose handling has ended went through Responding and
\* was sent exactly one response, whatever its body, its Content-Length and
\* the provider's answer.
C19_ExactlyOneResponse ==
    \A w \in Handled :
        conn[w].req.method = "POST" =>
            /\ Len(conn[w].sent) = 1
            /\ conn[w].trail # <<>>
            /\ conn[w].trail[Len(conn[w].trail)] = "Responding"

-----------------------------------------------------------------------------
(* Properties of requests without a speaker name *)

\* The payload names no speaker: name and speaker are absent or blank.
NoSpeakerName(payload) == IsBlank(payload.name) /\ IsBlank(payload.speaker)

\* C20: a request with a text and no speaker name is never resolved through
\* the voice map, whatever map was loaded: its call goes to its own voice_id
\* if it gives one, else to the default voice id, and without a default it is
\* answered 400 "No voice_id resolved" and no call is made.
C20_NamelessSkipsMap ==
    \A w \in DOMAIN conn :
        LET c == conn[w]
            payload == SeenPayload(c.req)
        IN  (/\ c.pc \in {"synthesizing", "closed"}
             /\ IsPostTts(c.req) /\ ReadsObject(c.req)
             /\ ~IsBlank(payload.text) /\ NoSpeakerName(payload)) =>
                IF ~IsBlank(payload.voice_id)
                THEN \A i \in DOMAIN c.calls : c.calls[i].voice_id = Strip(payload.voice_id.s)
                ELSE IF NonEmpty(config.default_voice_id)
                THEN \A i \in DOMAIN c.calls : c.calls[i].voice_id = config.default_voice_id.s
                ELSE /\ c.calls = <<>>
                     /\ SentError(c, 400)
                     /\ c.sent[1].body.error = NoVoiceIdResolved

====
